---- MODULE Spec2Model ----
(***************************************************************************)
(* Model of bot.py: the per-user sliding-window RateLimiter, the           *)
(* completion wrapper get_llm_response and the message handler             *)
(* process_message, each handler cut at its await points.                  *)
(*                                                                         *)
(* Time is counted in whole seconds.  Texts are named by short strings.    *)
(***************************************************************************)
EXTENDS Integers, Sequences, FiniteSets, TLC

\* ---------------------------------------------------------------- bounds
\* Last second the clock may reach.
MaxTime == 91

\* ------------------------------------------------------------- constants
\* Config.RATE_LIMIT
RATE_LIMIT == 3
\* timedelta(minutes=1), in seconds
Window == 60
\* Config.REQUEST_TIMEOUT, in seconds
REQUEST_TIMEOUT == 30

Users == {1, 2}
\* Users who write to the bot while the handlers are observed.
Senders == {1}
Slots == {1, 2}
\* Amounts by which the clock moves between two is_rate_limited calls.
ClockSteps == {30, 59, 60, 61}
\* Amounts by which the clock moves between two steps of the handlers.
HandlerClockSteps == {60, 61}
\* Seconds between wait_for arming its timer and the client library arming
\* its own: the request is only sent once the wrapped call starts running.
StartLags == {0, 1}
\* Amounts of time that pass at once while a completion call is awaited.
TimerSteps == {15, 30}

\* User-visible texts.
ThrottleText == "throttle"
TimeoutText == "timeout"
ApologyText == "apology"
UnexpectedText == "unexpected"
WelcomeText == "welcome"
HelpText == "help"
\* The commands with a handler of their own.
Commands == {"start", "reset", "help"}
\* What the model may answer (response.choices[0].message['content']).
ModelTexts == {"answer", "other"}
\* get_llm_response returning None.
None == "None"

VARIABLES
    now,            \* datetime.now()
    user_requests,  \* RateLimiter.user_requests: user -> list of timestamps
    pc,             \* slot -> position of the process_message task in it
    user,           \* slot -> message.from_user.id
    cmd,            \* slot -> the command handled in it, or none
    response,       \* slot -> value returned by get_llm_response
    noticeSent,     \* slot -> the processing notice was sent
    sent,           \* slot -> texts the user received, the notice excluded
    calls,          \* slot -> completion requests issued for the message
    deletes,        \* slot -> delete_message attempts for the message
    rl,             \* slot -> result of the message's rate check
    outcome,        \* slot -> how the completion call ended
    content,        \* slot -> the first choice's text, when the call succeeded
    full,           \* slot -> RATE_LIMIT checks of the user were admitted
                    \*         in the minute before the message's rate check
    spent,          \* slot -> full, and at the rate check every completion
                    \*         call made so far had ended in a timeout or an
                    \*         error
    anyOk,          \* some completion call has returned an answer
    deleted,        \* slot -> how delete_message ended: none, ok, failed
    finalSends,     \* slot -> sends of the final answer started
    outerLeft,      \* slot -> seconds left on the timer of asyncio.wait_for
                    \*         while the call is awaited, and as it stood when
                    \*         the call was given up for a timeout; else -1
    innerLeft,      \* slot -> the same for the client library's own timer
    last,           \* the latest is_rate_limited call: arguments and result
    admitted,       \* user -> times of the latest RATE_LIMIT+1 admitted calls
    ncalls,         \* user -> calls so far, counted up to RATE_LIMIT+1
    firstAt,        \* user -> time of the user's first call, or -1
    denial          \* user -> earliest stamp of the pending denial, or -1

vars == <<now, user_requests, pc, user, cmd, response, noticeSent, sent, calls,
          deletes, rl, outcome, content, full, spent, deleted, finalSends, outerLeft,
          innerLeft, anyOk, last, admitted, ncalls, firstAt, denial>>

limiterVars == <<user_requests, admitted>>
logVars == <<last, ncalls, firstAt, denial>>
timerVars == <<outerLeft, innerLeft>>
taskVars == <<pc, user, cmd, response, noticeSent, sent, calls, deletes, rl,
              outcome, content, full, spent, deleted, finalSends, timerVars, anyOk>>

\* ------------------------------------------------------------ RateLimiter
\* [req for req in reqs if req > t - timedelta(minutes=1)]
Prune(reqs, t) == SelectSeq(reqs, LAMBDA req : req > t - Window)

\* is_rate_limited on one user's list at time t: the result and the list
\* stored afterwards.
IsRateLimitedAppendsOnDeny(reqs, t) ==
    LET kept == Prune(reqs, t)
    IN  IF Len(kept) >= RATE_LIMIT
        THEN [ret |-> TRUE, reqs |-> Append(kept, t)]
        ELSE [ret |-> FALSE, reqs |-> Append(kept, t)]

IsRateLimitedKeepsBoundary(reqs, t) ==
    LET kept == SelectSeq(reqs, LAMBDA req : req >= t - Window)
    IN  IF Len(kept) >= RATE_LIMIT
        THEN [ret |-> TRUE, reqs |-> kept]
        ELSE [ret |-> FALSE, reqs |-> Append(kept, t)]

IsRateLimitedOffByOne(reqs, t) ==
    LET kept == Prune(reqs, t)
    IN  IF Len(kept) > RATE_LIMIT
        THEN [ret |-> TRUE, reqs |-> kept]
        ELSE [ret |-> FALSE, reqs |-> Append(kept, t)]

IsRateLimited(reqs, t) ==
    LET kept == Prune(reqs, t)
    IN  IF Len(kept) >= RATE_LIMIT
        THEN [ret |-> TRUE, reqs |-> kept]
        ELSE [ret |-> FALSE, reqs |-> Append(kept, t)]

NoCall == [user |-> 0, at |-> 0, pre |-> <<>>, preAdmitted |-> <<>>,
           preDenial |-> -1, nth |-> 0, ret |-> FALSE]

\* How many of the logged times lie less than a minute before t.
Recent(log, t) == Cardinality({i \in DOMAIN log : t - log[i] < Window})

LastN(s, n) == IF Len(s) <= n THEN s ELSE SubSeq(s, Len(s) - n + 1, Len(s))

LimiterCallLostUpdate(u, r) ==
    /\ r = IsRateLimited(user_requests[u], now)
    /\ user_requests' =
         [user_requests EXCEPT
            ![u] = IF r.ret \/ Len(r.reqs) < 2 THEN r.reqs
                   ELSE Append(SubSeq(r.reqs, 1, Len(r.reqs) - 2), now)]
    /\ admitted' = IF r.ret THEN admitted
                   ELSE [admitted EXCEPT
                           ![u] = LastN(Append(@, now), RATE_LIMIT + 1)]

LimiterCallSharedList(u, r) ==
    /\ r = IsRateLimited(user_requests[u], now)
    /\ user_requests' = [v \in Users |-> r.reqs]
    /\ admitted' = IF r.ret THEN admitted
                   ELSE [admitted EXCEPT
                           ![u] = LastN(Append(@, now), RATE_LIMIT + 1)]

\* rate_limiter.is_rate_limited(u) at the current time: r is what the call
\* returns and stores.  The times of the user's latest admitted calls are
\* logged beside the limiter's own list.
LimiterCall(u, r) ==
    /\ r = IsRateLimited(user_requests[u], now)
    /\ user_requests' = [user_requests EXCEPT ![u] = r.reqs]
    /\ admitted' = IF r.ret THEN admitted
                   ELSE [admitted EXCEPT
                           ![u] = LastN(Append(@, now), RATE_LIMIT + 1)]

\* The record of the calls kept when the limiter is exercised on its own.
LogCall(u, r) ==
    /\ last' = [user |-> u, at |-> now, pre |-> user_requests[u],
                preAdmitted |-> admitted[u], preDenial |-> denial[u],
                nth |-> ncalls[u] + 1, ret |-> r.ret]
    /\ ncalls' = [ncalls EXCEPT
                    ![u] = IF @ > RATE_LIMIT THEN @ ELSE @ + 1]
    /\ firstAt' = [firstAt EXCEPT ![u] = IF @ = -1 THEN now ELSE @]
    /\ denial' = [denial EXCEPT ![u] = IF r.ret
                                        THEN (IF @ = -1 THEN r.reqs[1] ELSE @)
                                        ELSE -1]

\* ------------------------------------------------------------------ clock
\* Time passes between two steps; the clock never runs backwards.
Tick(d) ==
    /\ now + d <= MaxTime
    /\ now' = now + d
    /\ UNCHANGED <<limiterVars, logVars, taskVars>>

\* ------------------------------------------------- the limiter on its own
\* One rate_limiter.is_rate_limited(u) call at the current time.
Check(u) ==
    /\ \E r \in {IsRateLimited(user_requests[u], now)} :
         LimiterCall(u, r) /\ LogCall(u, r)
    /\ UNCHANGED <<now, taskVars>>

\* ------------------------------------------------------ process_message
Terminal == {"idle", "Delivered", "Errored", "Raised", "CmdDone", "CmdRaised"}

\* The text of the final answer for a value returned by get_llm_response.
FinalTextNoApology(resp) == resp

FinalText(resp) == IF resp # None THEN resp ELSE ApologyText

\* What get_llm_response returns for each way the completion call can end:
\* the first choice's content, asyncio.TimeoutError, any other Exception.
CompletionResultTimeoutIsNone(how, text) ==
    IF how = "ok" THEN text ELSE None

CompletionResult(how, text) ==
    CASE how = "ok" -> text
      [] how = "timeout" -> TimeoutText
      [] OTHER -> None

\* The dispatcher hands a message of user u to process_message in slot s.
\* The handler runs to its first await, the send of the processing notice;
\* a message without text fails at message.text[:50] and goes to the outer
\* except.
Receive(s, u, hasText) ==
    /\ pc[s] \in Terminal
    /\ pc' = [pc EXCEPT ![s] = IF hasText THEN "Notifying" ELSE "ErrSending"]
    /\ user' = [user EXCEPT ![s] = u]
    /\ cmd' = [cmd EXCEPT ![s] = "none"]
    /\ response' = [response EXCEPT ![s] = None]
    /\ noticeSent' = [noticeSent EXCEPT ![s] = FALSE]
    /\ sent' = [sent EXCEPT ![s] = <<>>]
    /\ calls' = [calls EXCEPT ![s] = 0]
    /\ deletes' = [deletes EXCEPT ![s] = 0]
    /\ rl' = [rl EXCEPT ![s] = "none"]
    /\ outcome' = [outcome EXCEPT ![s] = "none"]
    /\ content' = [content EXCEPT ![s] = None]
    /\ full' = [full EXCEPT ![s] = FALSE]
    /\ spent' = [spent EXCEPT ![s] = FALSE]
    /\ deleted' = [deleted EXCEPT ![s] = "none"]
    /\ finalSends' = [finalSends EXCEPT ![s] = 0]
    /\ outerLeft' = [outerLeft EXCEPT ![s] = -1]
    /\ innerLeft' = [innerLeft EXCEPT ![s] = -1]
    /\ UNCHANGED <<now, anyOk, limiterVars, logVars>>

\* The send of the notice returns.  On success the handler enters
\* get_llm_response, which checks the rate limit and either returns the
\* throttling text (the handler goes on to delete the notice) or issues the
\* completion request.  On failure the outer except sends the
\* unexpected-error text.
NoticeDoneThrottleSkipsCleanup(s, ok) ==
    /\ pc[s] = "Notifying"
    /\ IF ok
       THEN /\ noticeSent' = [noticeSent EXCEPT ![s] = TRUE]
            /\ \E r \in {IsRateLimited(user_requests[user[s]], now)} :
                 /\ LimiterCall(user[s], r)
                 /\ rl' = [rl EXCEPT
                             ![s] = IF r.ret THEN "denied" ELSE "admitted"]
                 /\ full' = [full EXCEPT
                               ![s] = Recent(admitted[user[s]], now)
                                        >= RATE_LIMIT]
                 /\ spent' = [spent EXCEPT
                                ![s] = /\ Recent(admitted[user[s]], now)
                                            >= RATE_LIMIT
                                       /\ ~anyOk
                                       /\ \A t \in Slots :
                                            pc[t] # "Completing"]
                 /\ IF r.ret
                    THEN /\ pc' = [pc EXCEPT ![s] = "Sending"]
                         /\ response' = [response EXCEPT ![s] = ThrottleText]
                         /\ UNCHANGED <<calls, deletes, timerVars>>
                    ELSE /\ pc' = [pc EXCEPT ![s] = "Completing"]
                         /\ calls' = [calls EXCEPT ![s] = @ + 1]
                         /\ outerLeft' = [outerLeft EXCEPT
                                            ![s] = REQUEST_TIMEOUT]
                         /\ \E lag \in StartLags :
                              innerLeft' = [innerLeft EXCEPT
                                              ![s] = REQUEST_TIMEOUT + lag]
                         /\ UNCHANGED <<response, deletes>>
       ELSE /\ pc' = [pc EXCEPT ![s] = "ErrSending"]
            /\ UNCHANGED <<noticeSent, response, calls, deletes, rl, full, spent,
                           limiterVars, timerVars>>
    /\ UNCHANGED <<now, anyOk, logVars, user, cmd, sent, outcome, content, deleted,
                   finalSends>>

NoticeDone(s, ok) ==
    /\ pc[s] = "Notifying"
    /\ IF ok
       THEN /\ noticeSent' = [noticeSent EXCEPT ![s] = TRUE]
            /\ \E r \in {IsRateLimited(user_requests[user[s]], now)} :
                 /\ LimiterCall(user[s], r)
                 /\ rl' = [rl EXCEPT
                             ![s] = IF r.ret THEN "denied" ELSE "admitted"]
                 /\ full' = [full EXCEPT
                               ![s] = Recent(admitted[user[s]], now)
                                        >= RATE_LIMIT]
                 /\ spent' = [spent EXCEPT
                                ![s] = /\ Recent(admitted[user[s]], now)
                                            >= RATE_LIMIT
                                       /\ ~anyOk
                                       /\ \A t \in Slots :
                                            pc[t] # "Completing"]
                 /\ IF r.ret
                    THEN /\ pc' = [pc EXCEPT ![s] = "Deleting"]
                         /\ response' = [response EXCEPT ![s] = ThrottleText]
                         /\ deletes' = [deletes EXCEPT ![s] = @ + 1]
                         /\ UNCHANGED <<calls, timerVars>>
                    ELSE /\ pc' = [pc EXCEPT ![s] = "Completing"]
                         /\ calls' = [calls EXCEPT ![s] = @ + 1]
                         /\ outerLeft' = [outerLeft EXCEPT
                                            ![s] = REQUEST_TIMEOUT]
                         /\ \E lag \in StartLags :
                              innerLeft' = [innerLeft EXCEPT
                                              ![s] = REQUEST_TIMEOUT + lag]
                         /\ UNCHANGED <<response, deletes>>
       ELSE /\ pc' = [pc EXCEPT ![s] = "ErrSending"]
            /\ UNCHANGED <<noticeSent, response, calls, deletes, rl, full, spent,
                           limiterVars, timerVars>>
    /\ UNCHANGED <<now, anyOk, logVars, user, cmd, sent, outcome, content, deleted,
                   finalSends>>

\* Time passes while the completion call of slot s is awaited; both timers
\* run down.  No time passes beyond the expiry of the timer of wait_for:
\* wait_for then cancels the call and raises asyncio.TimeoutError.
Elapse(s, d) ==
    /\ pc[s] = "Completing"
    /\ d <= outerLeft[s]
    /\ outerLeft' = [outerLeft EXCEPT ![s] = @ - d]
    /\ innerLeft' = [innerLeft EXCEPT ![s] = @ - d]
    /\ UNCHANGED <<now, anyOk, limiterVars, logVars, pc, user, cmd, response, noticeSent,
                   sent, calls, deletes, rl, outcome, content, full, spent, deleted,
                   finalSends>>

\* The ways the awaited call can end with so many seconds left on the two
\* timers: asyncio.TimeoutError once the timer of wait_for has expired; an
\* answer or an error of the client (its own timeout included) at any time.
CanEndTimeoutAnyTime(how, outer, inner) == TRUE

CanEnd(how, outer, inner) == how = "timeout" => outer = 0

CompletionDoneRetriesOnce(s, how, text) ==
    /\ pc[s] = "Completing"
    /\ CanEnd(how, outerLeft[s], innerLeft[s])
    /\ IF how # "ok" /\ calls[s] = 1
       THEN /\ calls' = [calls EXCEPT ![s] = @ + 1]
            /\ outerLeft' = [outerLeft EXCEPT ![s] = REQUEST_TIMEOUT]
            /\ innerLeft' = [innerLeft EXCEPT ![s] = REQUEST_TIMEOUT]
            /\ UNCHANGED <<pc, outcome, content, response, deletes>>
       ELSE /\ outcome' = [outcome EXCEPT ![s] = how]
            /\ content' = [content EXCEPT
                             ![s] = IF how = "ok" THEN text ELSE None]
            /\ response' = [response EXCEPT
                              ![s] = CompletionResult(how, text)]
            /\ deletes' = [deletes EXCEPT ![s] = @ + 1]
            /\ pc' = [pc EXCEPT ![s] = "Deleting"]
            /\ outerLeft' = [outerLeft EXCEPT
                               ![s] = IF how = "timeout" THEN @ ELSE -1]
            /\ innerLeft' = [innerLeft EXCEPT
                               ![s] = IF how = "timeout" THEN @ ELSE -1]
            /\ UNCHANGED calls
    /\ anyOk' = (anyOk \/ how = "ok")
    /\ UNCHANGED <<now, limiterVars, logVars, user, cmd, noticeSent, sent, rl,
                   full, spent, deleted, finalSends>>

CompletionDoneTimeoutSkipsCleanup(s, how, text) ==
    /\ pc[s] = "Completing"
    /\ CanEnd(how, outerLeft[s], innerLeft[s])
    /\ outcome' = [outcome EXCEPT ![s] = how]
    /\ content' = [content EXCEPT ![s] = IF how = "ok" THEN text ELSE None]
    /\ response' = [response EXCEPT ![s] = CompletionResult(how, text)]
    /\ IF how = "timeout"
       THEN /\ pc' = [pc EXCEPT ![s] = "Sending"]
            /\ finalSends' = [finalSends EXCEPT ![s] = @ + 1]
            /\ UNCHANGED deletes
       ELSE /\ pc' = [pc EXCEPT ![s] = "Deleting"]
            /\ deletes' = [deletes EXCEPT ![s] = @ + 1]
            /\ UNCHANGED finalSends
    /\ outerLeft' = [outerLeft EXCEPT ![s] = IF how = "timeout" THEN @ ELSE -1]
    /\ innerLeft' = [innerLeft EXCEPT ![s] = IF how = "timeout" THEN @ ELSE -1]
    /\ anyOk' = (anyOk \/ how = "ok")
    /\ UNCHANGED <<now, limiterVars, logVars, user, cmd, noticeSent, sent, calls, rl,
                   full, spent, deleted>>

CompletionDoneRefundsOnFailure(s, how, text) ==
    /\ pc[s] = "Completing"
    /\ CanEnd(how, outerLeft[s], innerLeft[s])
    /\ outcome' = [outcome EXCEPT ![s] = how]
    /\ content' = [content EXCEPT ![s] = IF how = "ok" THEN text ELSE None]
    /\ response' = [response EXCEPT ![s] = CompletionResult(how, text)]
    /\ deletes' = [deletes EXCEPT ![s] = @ + 1]
    /\ pc' = [pc EXCEPT ![s] = "Deleting"]
    /\ outerLeft' = [outerLeft EXCEPT ![s] = IF how = "timeout" THEN @ ELSE -1]
    /\ innerLeft' = [innerLeft EXCEPT ![s] = IF how = "timeout" THEN @ ELSE -1]
    /\ anyOk' = (anyOk \/ how = "ok")
    /\ user_requests' =
         [user_requests EXCEPT
            ![user[s]] = IF how = "ok" \/ @ = <<>> THEN @
                         ELSE SubSeq(@, 1, Len(@) - 1)]
    /\ UNCHANGED <<now, admitted, logVars, user, cmd, noticeSent, sent, calls,
                   rl, full, spent, deleted, finalSends>>

\* The completion call ends; get_llm_response returns and the handler starts
\* deleting the notice.
CompletionDone(s, how, text) ==
    /\ pc[s] = "Completing"
    /\ CanEnd(how, outerLeft[s], innerLeft[s])
    /\ outcome' = [outcome EXCEPT ![s] = how]
    /\ content' = [content EXCEPT ![s] = IF how = "ok" THEN text ELSE None]
    /\ response' = [response EXCEPT ![s] = CompletionResult(how, text)]
    /\ deletes' = [deletes EXCEPT ![s] = @ + 1]
    /\ pc' = [pc EXCEPT ![s] = "Deleting"]
    /\ outerLeft' = [outerLeft EXCEPT ![s] = IF how = "timeout" THEN @ ELSE -1]
    /\ innerLeft' = [innerLeft EXCEPT ![s] = IF how = "timeout" THEN @ ELSE -1]
    /\ anyOk' = (anyOk \/ how = "ok")
    /\ UNCHANGED <<now, limiterVars, logVars, user, cmd, noticeSent, sent, calls, rl,
                   full, spent, deleted, finalSends>>

DeleteDoneFailureAborts(s, ok) ==
    /\ pc[s] = "Deleting"
    /\ deleted' = [deleted EXCEPT ![s] = IF ok THEN "ok" ELSE "failed"]
    /\ finalSends' = [finalSends EXCEPT ![s] = IF ok THEN @ + 1 ELSE @]
    /\ pc' = [pc EXCEPT ![s] = IF ok THEN "Sending" ELSE "ErrSending"]
    /\ UNCHANGED <<now, anyOk, limiterVars, logVars, user, cmd, response, noticeSent, sent,
                   calls, deletes, rl, outcome, content, full, spent, timerVars>>

\* delete_message returns or raises; a failure is logged and swallowed.  The
\* handler then starts sending the final answer.
DeleteDone(s, ok) ==
    /\ pc[s] = "Deleting"
    /\ deleted' = [deleted EXCEPT ![s] = IF ok THEN "ok" ELSE "failed"]
    /\ finalSends' = [finalSends EXCEPT ![s] = @ + 1]
    /\ pc' = [pc EXCEPT ![s] = "Sending"]
    /\ UNCHANGED <<now, anyOk, limiterVars, logVars, user, cmd, response, noticeSent, sent,
                   calls, deletes, rl, outcome, content, full, spent, timerVars>>

\* The send of the final answer returns or raises; a failure reaches the
\* outer except, which starts sending the unexpected-error text.
SendDone(s, ok) ==
    /\ pc[s] = "Sending"
    /\ IF ok
       THEN /\ sent' = [sent EXCEPT ![s] = Append(@, FinalText(response[s]))]
            /\ pc' = [pc EXCEPT ![s] = "Delivered"]
       ELSE /\ pc' = [pc EXCEPT ![s] = "ErrSending"]
            /\ UNCHANGED sent
    /\ UNCHANGED <<now, anyOk, limiterVars, logVars, user, cmd, response, noticeSent, calls,
                   deletes, rl, outcome, content, full, spent, deleted, finalSends,
                   timerVars>>

\* The send inside the outer except returns or raises; nothing catches a
\* failure of it, so the exception leaves process_message.
ErrSendDone(s, ok) ==
    /\ pc[s] = "ErrSending"
    /\ IF ok
       THEN /\ sent' = [sent EXCEPT ![s] = Append(@, UnexpectedText)]
            /\ pc' = [pc EXCEPT ![s] = "Errored"]
       ELSE /\ pc' = [pc EXCEPT ![s] = "Raised"]
            /\ UNCHANGED sent
    /\ UNCHANGED <<now, anyOk, limiterVars, logVars, user, cmd, response, noticeSent, calls,
                   deletes, rl, outcome, content, full, spent, deleted, finalSends,
                   timerVars>>

\* ------------------------------------------- handle_start_reset, handle_help
\* The fixed text of a command: welcome_text for /start and /reset, help_text
\* for /help.
CommandText(c) == IF c = "help" THEN HelpText ELSE WelcomeText

\* The dispatcher hands a command of user u to its handler in slot s; the
\* handler runs to its only await, the send of its fixed text.
ReceiveCommandResetClears(s, u, c) ==
    /\ pc[s] \in Terminal
    /\ pc' = [pc EXCEPT ![s] = "CmdSending"]
    /\ user' = [user EXCEPT ![s] = u]
    /\ cmd' = [cmd EXCEPT ![s] = c]
    /\ response' = [response EXCEPT ![s] = None]
    /\ noticeSent' = [noticeSent EXCEPT ![s] = FALSE]
    /\ sent' = [sent EXCEPT ![s] = <<>>]
    /\ calls' = [calls EXCEPT ![s] = 0]
    /\ deletes' = [deletes EXCEPT ![s] = 0]
    /\ rl' = [rl EXCEPT ![s] = "none"]
    /\ outcome' = [outcome EXCEPT ![s] = "none"]
    /\ content' = [content EXCEPT ![s] = None]
    /\ full' = [full EXCEPT ![s] = FALSE]
    /\ spent' = [spent EXCEPT ![s] = FALSE]
    /\ deleted' = [deleted EXCEPT ![s] = "none"]
    /\ finalSends' = [finalSends EXCEPT ![s] = 0]
    /\ outerLeft' = [outerLeft EXCEPT ![s] = -1]
    /\ innerLeft' = [innerLeft EXCEPT ![s] = -1]
    /\ user_requests' = IF c = "reset"
                        THEN [user_requests EXCEPT ![u] = <<>>]
                        ELSE user_requests
    /\ UNCHANGED <<now, anyOk, admitted, logVars>>

ReceiveCommand(s, u, c) ==
    /\ pc[s] \in Terminal
    /\ pc' = [pc EXCEPT ![s] = "CmdSending"]
    /\ user' = [user EXCEPT ![s] = u]
    /\ cmd' = [cmd EXCEPT ![s] = c]
    /\ response' = [response EXCEPT ![s] = None]
    /\ noticeSent' = [noticeSent EXCEPT ![s] = FALSE]
    /\ sent' = [sent EXCEPT ![s] = <<>>]
    /\ calls' = [calls EXCEPT ![s] = 0]
    /\ deletes' = [deletes EXCEPT ![s] = 0]
    /\ rl' = [rl EXCEPT ![s] = "none"]
    /\ outcome' = [outcome EXCEPT ![s] = "none"]
    /\ content' = [content EXCEPT ![s] = None]
    /\ full' = [full EXCEPT ![s] = FALSE]
    /\ spent' = [spent EXCEPT ![s] = FALSE]
    /\ deleted' = [deleted EXCEPT ![s] = "none"]
    /\ finalSends' = [finalSends EXCEPT ![s] = 0]
    /\ outerLeft' = [outerLeft EXCEPT ![s] = -1]
    /\ innerLeft' = [innerLeft EXCEPT ![s] = -1]
    /\ UNCHANGED <<now, anyOk, limiterVars, logVars>>

\* The send of the fixed text returns or raises; the handlers catch
\* nothing, so a failure leaves the handler.
CommandSendDone(s, ok) ==
    /\ pc[s] = "CmdSending"
    /\ IF ok
       THEN /\ sent' = [sent EXCEPT ![s] = Append(@, CommandText(cmd[s]))]
            /\ pc' = [pc EXCEPT ![s] = "CmdDone"]
       ELSE /\ pc' = [pc EXCEPT ![s] = "CmdRaised"]
            /\ UNCHANGED sent
    /\ UNCHANGED <<now, anyOk, limiterVars, logVars, user, cmd, response, noticeSent,
                   calls, deletes, rl, outcome, content, full, spent, deleted,
                   finalSends, timerVars>>

\* ---------------------------------------------------------- specifications
Init ==
    /\ now = 0
    /\ user_requests = [u \in Users |-> <<>>]
    /\ pc = [s \in Slots |-> "idle"]
    /\ user = [s \in Slots |-> 1]
    /\ cmd = [s \in Slots |-> "none"]
    /\ response = [s \in Slots |-> None]
    /\ noticeSent = [s \in Slots |-> FALSE]
    /\ sent = [s \in Slots |-> <<>>]
    /\ calls = [s \in Slots |-> 0]
    /\ deletes = [s \in Slots |-> 0]
    /\ rl = [s \in Slots |-> "none"]
    /\ outcome = [s \in Slots |-> "none"]
    /\ content = [s \in Slots |-> None]
    /\ full = [s \in Slots |-> FALSE]
    /\ spent = [s \in Slots |-> FALSE]
    /\ anyOk = FALSE
    /\ deleted = [s \in Slots |-> "none"]
    /\ finalSends = [s \in Slots |-> 0]
    /\ outerLeft = [s \in Slots |-> -1]
    /\ innerLeft = [s \in Slots |-> -1]
    /\ last = NoCall
    /\ admitted = [u \in Users |-> <<>>]
    /\ ncalls = [u \in Users |-> 0]
    /\ firstAt = [u \in Users |-> -1]
    /\ denial = [u \in Users |-> -1]

\* The whole program: messages arrive and their handlers interleave at the
\* await points while time passes.
Next ==
    \/ \E d \in HandlerClockSteps : Tick(d)
    \/ \E s \in Slots, u \in Senders, hasText \in BOOLEAN :
         Receive(s, u, hasText)
    \/ \E s \in Slots, ok \in BOOLEAN : NoticeDone(s, ok)
    \/ \E s \in Slots, how \in {"ok", "timeout", "error"}, text \in ModelTexts :
         CompletionDone(s, how, text)
    \/ \E s \in Slots, d \in TimerSteps : Elapse(s, d)
    \/ \E s \in Slots, ok \in BOOLEAN : DeleteDone(s, ok)
    \/ \E s \in Slots, ok \in BOOLEAN : SendDone(s, ok)
    \/ \E s \in Slots, ok \in BOOLEAN : ErrSendDone(s, ok)
    \/ \E s \in Slots, u \in Senders, c \in Commands : ReceiveCommand(s, u, c)
    \/ \E s \in Slots, ok \in BOOLEAN : CommandSendDone(s, ok)

Spec == Init /\ [][Next]_vars

\* The event loop resumes a handler once the call it awaits has returned or
\* raised; every transport call is taken to end, and time passes until the
\* timer of wait_for fires.  Nothing makes the completion endpoint answer.
Fairness ==
    \A s \in Slots :
      /\ WF_vars(\E ok \in BOOLEAN : NoticeDone(s, ok))
      /\ WF_vars(\E ok \in BOOLEAN : DeleteDone(s, ok))
      /\ WF_vars(\E ok \in BOOLEAN : SendDone(s, ok))
      /\ WF_vars(\E ok \in BOOLEAN : ErrSendDone(s, ok))
      /\ WF_vars(\E ok \in BOOLEAN : CommandSendDone(s, ok))
      /\ WF_vars(\E d \in TimerSteps : Elapse(s, d))
      /\ WF_vars(\E text \in ModelTexts : CompletionDone(s, "timeout", text))

SpecLive == Init /\ [][Next]_vars /\ Fairness

\* The limiter alone: is_rate_limited called for any user at non-decreasing
\* times.
NextLimiter ==
    \/ \E d \in ClockSteps : Tick(d)
    \/ \E u \in Users : Check(u)

SpecLimiter == Init /\ [][NextLimiter]_vars

\* ------------------------------------------------------------- the claims
Called == last.user # 0
Ended == {"Delivered", "Errored", "Raised"}

\* C1: at most RATE_LIMIT calls of a user are admitted within any 60 seconds
\* (RATE_LIMIT+1 consecutive admissions span at least a minute); a call is
\* denied whenever RATE_LIMIT calls of the user were admitted less than 60
\* seconds before it; the first RATE_LIMIT calls of a fresh user are
\* admitted; and a fourth call with no time elapsed since the first is
\* denied.
C1_AtMostLimitPerWindow ==
    /\ \A u \in Users :
         Len(admitted[u]) = RATE_LIMIT + 1 =>
           admitted[u][RATE_LIMIT + 1] - admitted[u][1] >= Window
    /\ Called =>
         /\ Recent(last.preAdmitted, last.at) >= RATE_LIMIT => last.ret
         /\ last.nth <= RATE_LIMIT => ~last.ret
         /\ (last.nth = RATE_LIMIT + 1 /\ firstAt[last.user] = last.at) =>
              last.ret

\* Four calls of a fresh user at one instant, the fourth denied.
C1_Witness ==
    /\ Called
    /\ last.nth = RATE_LIMIT + 1
    /\ firstAt[last.user] = last.at
    /\ last.ret
    /\ Len(admitted[last.user]) = RATE_LIMIT

\* C2: once a user has been denied, and has only been denied since, the
\* next call made more than 60 seconds after the earliest timestamp of the
\* denied window is admitted.
C2_ReadmittedAfterWindow ==
    (Called /\ last.preDenial # -1 /\ last.at > last.preDenial + Window)
      => ~last.ret

\* A user denied at first and admitted again later.
C2_Witness ==
    /\ Called
    /\ last.preDenial # -1
    /\ last.at > last.preDenial + Window
    /\ ~last.ret

\* C3: a denied call records nothing: the list stored for the user is the
\* list from before the call without the entries a minute old or older.
C3_DeniedRecordsNothing ==
    (Called /\ last.ret) =>
      user_requests[last.user] =
        SelectSeq(last.pre, LAMBDA x : last.at - x < Window)

\* A denied call made later than the user's first call.
C3_Witness ==
    /\ Called
    /\ last.ret
    /\ last.at > firstAt[last.user]

\* C4: right after a call at time t every stored timestamp x of that user
\* has t - 60 < x <= t; a timestamp exactly 60 seconds old is dropped.
C4_OnlyLastMinuteKept ==
    Called =>
      \A i \in DOMAIN user_requests[last.user] :
        /\ last.at - Window < user_requests[last.user][i]
        /\ user_requests[last.user][i] <= last.at

\* A call that found a timestamp exactly 60 seconds old in the list.
C4_Witness ==
    /\ Called
    /\ \E i \in DOMAIN last.pre : last.pre[i] = last.at - Window
    /\ \E i \in DOMAIN last.pre : last.pre[i] > last.at - Window

C6_LimitOnMessages ==
    \A s \in Slots :
      /\ rl[s] # "none" => (rl[s] = "admitted" <=> ~full[s])
      /\ rl[s] = "admitted" => calls[s] = 1
      /\ rl[s] = "denied" =>
           /\ calls[s] = 0
           /\ pc[s] = "Delivered" => sent[s] = <<ThrottleText>>

\* The fourth message of a user within one second delivered, throttled,
\* while the third one is still being completed.
C6_Witness ==
    \E s, t \in Slots :
      /\ rl[s] = "denied"
      /\ pc[s] = "Delivered"
      /\ full[s]
      /\ admitted[user[s]] = <<now, now, now>>
      /\ user[t] = user[s]
      /\ pc[t] = "Completing"
      /\ calls[t] = 1

\* C7: however the handling of a message ends, the user has received
\* exactly one reply (the processing notice not counted).
C7_ExactlyOneReply ==
    \A s \in Slots : pc[s] \in Ended => Len(sent[s]) = 1

\* C8: no exception leaves process_message.
C8_NeverRaises ==
    \A s \in Slots : pc[s] # "Raised"

\* C9 as stated: after a failed completion call the final reply is the
\* generic apology, whether the call timed out or failed otherwise.
C9_ApologyOnAnyFailure ==
    \A s \in Slots :
      (pc[s] = "Delivered" /\ outcome[s] \in {"timeout", "error"}) =>
        sent[s] = <<ApologyText>>

\* C9 as amended: after a completion call that failed with anything but a
\* timeout the final reply is the generic apology; after a timeout it is
\* the timeout text, which is another text.
C9_ApologyOnFailureOnly ==
    \A s \in Slots :
      /\ (pc[s] \in {"Sending", "Delivered"} /\ outcome[s] = "error") =>
           (response[s] = None /\ FinalText(response[s]) = ApologyText)
      /\ (pc[s] = "Delivered" /\ outcome[s] = "error") =>
           sent[s] = <<ApologyText>>
      /\ (pc[s] = "Delivered" /\ outcome[s] = "timeout") =>
           (sent[s] # <<ApologyText>> /\ sent[s] = <<TimeoutText>>)

\* A delivered apology after a failure, beside a delivered timeout text.
C9_Witness ==
    \E s, t \in Slots :
      /\ pc[s] = "Delivered" /\ outcome[s] = "error"
      /\ sent[s] = <<ApologyText>>
      /\ pc[t] = "Delivered" /\ outcome[t] = "timeout"

\* C10: for an admitted message the final reply is the timeout text when
\* the completion call timed out (no text of the model is used), the
\* generic apology, not the timeout text, when it failed otherwise, and the
\* first choice's text unchanged when it succeeded.
C10_ReplyByOutcome ==
    \A s \in Slots :
      (pc[s] = "Delivered" /\ rl[s] = "admitted") =>
        /\ outcome[s] = "timeout" =>
             (sent[s] = <<TimeoutText>> /\ content[s] = None)
        /\ outcome[s] = "error" =>
             (sent[s] = <<ApologyText>> /\ sent[s] # <<TimeoutText>>)
        /\ outcome[s] = "ok" =>
             (sent[s] = <<content[s]>> /\ content[s] \in ModelTexts)

\* One message answered with the model's text, another with the timeout
\* text.
C10_Witness ==
    \E s, t \in Slots :
      /\ pc[s] = "Delivered" /\ outcome[s] = "ok"
      /\ sent[s] = <<"other">>
      /\ pc[t] = "Delivered" /\ outcome[t] = "timeout"
      /\ sent[t] = <<TimeoutText>>

\* The final answer the outcome of a message calls for.
ExpectedReply(s) ==
    CASE rl[s] = "denied" -> ThrottleText
      [] outcome[s] = "ok" -> content[s]
      [] outcome[s] = "timeout" -> TimeoutText
      [] OTHER -> ApologyText

\* C11: whether the deletion of the notice fails or succeeds, the handler
\* goes on to send the final answer (so the unexpected-error text can only
\* follow a failed final send), and the answer sent and delivered is the
\* one the rate check and the completion outcome call for.
C11_DeleteFailureSwallowed ==
    \A s \in Slots :
      deleted[s] # "none" =>
        /\ finalSends[s] = 1
        /\ pc[s] \in {"Sending", "Delivered", "ErrSending", "Errored", "Raised"}
        /\ pc[s] = "Sending" => FinalText(response[s]) = ExpectedReply(s)
        /\ pc[s] = "Delivered" => sent[s] = <<ExpectedReply(s)>>

\* Two messages answered by the model, delivered with the same text, the
\* notice of one deleted and the deletion of the other's failed.
C11_Witness ==
    \E s, t \in Slots :
      /\ deleted[s] = "failed" /\ deleted[t] = "ok"
      /\ pc[s] = "Delivered" /\ pc[t] = "Delivered"
      /\ outcome[s] = "ok" /\ outcome[t] = "ok"
      /\ sent[s] = sent[t]

\* C16: a message whose notice was sent gets exactly one attempt to delete
\* it: none before the completion step is over, one from then on whatever
\* the outcome, and it has returned before the final answer is sent.
C16_DeleteOnceBetween ==
    \A s \in Slots :
      /\ deletes[s] <= 1
      /\ pc[s] \in {"Notifying", "Completing"} => deletes[s] = 0
      /\ ~noticeSent[s] => deletes[s] = 0
      /\ (noticeSent[s] /\ pc[s] # "Completing") => deletes[s] = 1
      /\ outcome[s] # "none" => deletes[s] = 1
      /\ finalSends[s] > 0 => (deletes[s] = 1 /\ deleted[s] # "none")
      /\ deletes[s] = 1 => (rl[s] = "denied" \/ outcome[s] # "none")

\* A message whose completion call timed out, its notice deleted once and
\* its final answer delivered.
C16_Witness ==
    \E s \in Slots :
      /\ noticeSent[s]
      /\ outcome[s] = "timeout"
      /\ deletes[s] = 1
      /\ deleted[s] = "ok"
      /\ pc[s] = "Delivered"

\* C12 as stated: a call is reported as timed out only when both the timer
\* of wait_for and the client library's own timer have expired.
C12_BothTimersExpired ==
    \A s \in Slots :
      outcome[s] = "timeout" => (outerLeft[s] = 0 /\ innerLeft[s] = 0)

\* C12 as amended: a call is reported as timed out only when the timer of
\* wait_for has expired, and then whether or not the client library's own
\* timer, armed no earlier, is still running.
C12_OuterTimerDecides ==
    \A s \in Slots :
      /\ outcome[s] = "timeout" => (outerLeft[s] = 0 /\ innerLeft[s] >= 0)
      /\ pc[s] = "Completing" =>
           (outerLeft[s] >= 0 /\ innerLeft[s] >= outerLeft[s])

\* A call given up for a timeout with a second left on the library's timer.
C12_Witness ==
    \E s \in Slots :
      /\ outcome[s] = "timeout"
      /\ outerLeft[s] = 0
      /\ innerLeft[s] > 0
      /\ pc[s] = "Delivered"

\* C13: at most one completion request is issued for a message: none
\* unless it was admitted, one once it was, and once the call has timed out
\* or failed its result is what get_llm_response returned, with no second
\* request.
C13_NoRetry ==
    \A s \in Slots :
      /\ calls[s] <= 1
      /\ rl[s] # "admitted" => calls[s] = 0
      /\ pc[s] = "Completing" => (calls[s] = 1 /\ outcome[s] = "none")
      /\ outcome[s] \in {"timeout", "error"} =>
           /\ calls[s] = 1
           /\ pc[s] # "Completing"
           /\ response[s] = (IF outcome[s] = "timeout" THEN TimeoutText
                             ELSE None)

\* A message whose only completion request failed, answered with the
\* apology.
C13_Witness ==
    \E s \in Slots :
      /\ outcome[s] = "error"
      /\ calls[s] = 1
      /\ pc[s] = "Delivered"
      /\ sent[s] = <<ApologyText>>

\* A slot handling a command has made no rate check and no completion
\* request, and what it has sent is the command's fixed text.
C14_CommandsInv ==
    \A s \in Slots :
      cmd[s] # "none" =>
        /\ pc[s] \in {"CmdSending", "CmdDone", "CmdRaised"}
        /\ calls[s] = 0
        /\ rl[s] = "none"
        /\ pc[s] = "CmdDone" =>
             sent[s] = <<IF cmd[s] = "help" THEN HelpText ELSE WelcomeText>>

\* A step of a command handler leaves the limiter's map as it was.
C14_CommandStep ==
    \A s \in Slots :
      (cmd'[s] # "none" /\ <<pc[s], cmd[s]>> # <<pc'[s], cmd'[s]>>) =>
        user_requests' = user_requests

\* C14: a command handler issues no rate check and no completion request
\* and answers with its fixed text, also for a user who is rate-limited at
\* the time; no step of a command handler changes the limiter's map.
C14_CommandsStateless == []C14_CommandsInv /\ [][C14_CommandStep]_vars

\* /reset answered with the welcome text for a user whose last minute holds
\* RATE_LIMIT admitted requests, and they are all still in the map.
C14_Witness ==
    \E s \in Slots :
      /\ cmd[s] = "reset"
      /\ pc[s] = "CmdDone"
      /\ sent[s] = <<WelcomeText>>
      /\ Recent(user_requests[user[s]], now) = RATE_LIMIT

\* C15: with the handlers of one user's messages interleaved at their
\* awaits, the rate check and the recording of the timestamp are one step:
\* the limiter's list of a user is always the tail of the user's admitted
\* requests, never longer than RATE_LIMIT, so no interleaving admits more
\* than RATE_LIMIT messages of a user within 60 seconds.
C15_CheckAndRecordAtomic ==
    \A u \in Users :
      /\ Len(admitted[u]) = RATE_LIMIT + 1 =>
           admitted[u][RATE_LIMIT + 1] - admitted[u][1] >= Window
      /\ Len(user_requests[u]) <= RATE_LIMIT
      /\ user_requests[u] = LastN(admitted[u], Len(user_requests[u]))
      /\ \A s \in Slots :
           (user[s] = u /\ rl[s] = "admitted" /\ pc[s] = "Completing") =>
             Len(user_requests[u]) >= 1

\* Two messages of one user awaiting their completion calls at once, the
\* second and third admitted of the minute.
C15_Witness ==
    \E s, t \in Slots :
      /\ s # t
      /\ user[s] = user[t]
      /\ pc[s] = "Completing" /\ pc[t] = "Completing"
      /\ user_requests[user[s]] = <<now, now, now>>

\* C17: the handling of every message eventually ends in Delivered or
\* Errored.
C17_EndsDeliveredOrErrored ==
    \A s \in Slots :
      (pc[s] = "Notifying") ~> (pc[s] \in {"Delivered", "Errored"})

\* The handling of every message eventually ends, be it by the exception of
\* the last send leaving the handler; a completion call that never answers
\* is ended by the timer of wait_for.
HandlingEnds ==
    \A s \in Slots :
      /\ (pc[s] \notin Terminal) ~> (pc[s] \in Terminal)
      /\ (pc[s] = "Completing") ~> (pc[s] = "Deleting")

\* C18: the list stored for a user never has more than RATE_LIMIT entries
\* and its timestamps are in non-decreasing order.
C18_ListBoundedAndOrdered ==
    \A u \in Users :
      /\ Len(user_requests[u]) <= RATE_LIMIT
      /\ \A i, j \in DOMAIN user_requests[u] :
           i <= j => user_requests[u][i] <= user_requests[u][j]

\* A denied call that leaves a full list whose timestamps differ.
C18_Witness ==
    /\ Called
    /\ last.ret
    /\ Len(user_requests[last.user]) = RATE_LIMIT
    /\ user_requests[last.user][1] < user_requests[last.user][RATE_LIMIT]

\* A call decides by the caller's own admitted calls of the last minute.
C20_OwnHistoryDecides ==
    Called => (last.ret <=> Recent(last.preAdmitted, last.at) >= RATE_LIMIT)

\* A step that changes the list of a user is a call made for that user.
C20_OwnListOnly ==
    \A v \in Users :
      user_requests'[v] # user_requests[v] =>
        (last'.user = v /\ last'.at = now /\ now' = now)

\* C20: is_rate_limited(u) leaves the list of every other user unchanged and
\* decides by u's own timestamps and the time alone.
C20_PerUserIsolation == []C20_OwnHistoryDecides /\ [][C20_OwnListOnly]_vars

\* A user is admitted while the window of another user is full.
C20_Witness ==
    /\ Called
    /\ ~last.ret
    /\ \E v \in Users \ {last.user} :
         /\ Len(user_requests[v]) = RATE_LIMIT
         /\ \A i \in DOMAIN user_requests[v] :
              last.at - user_requests[v][i] < Window

\* C19: a message that arrives when RATE_LIMIT messages of its user were
\* admitted in the last minute and every completion call made so far has
\* ended in a timeout or an error is denied, and no completion request is
\* made for it.
C19_SlotNeverRefunded ==
    \A s \in Slots : spent[s] => (rl[s] = "denied" /\ calls[s] = 0)

\* A message denied after nothing but failures, one of them a timeout still
\* on display in the other slot.
C19_Witness ==
    \E s, t \in Slots :
      /\ spent[s] /\ rl[s] = "denied"
      /\ user[t] = user[s]
      /\ rl[t] = "admitted" /\ outcome[t] = "timeout"

====
